---- MODULE Spec2Model ----
(***************************************************************************)
(* Model of pulser/simresults.py: class SimulationResults.                 *)
(*                                                                         *)
(* A results object is built once from the output of a simulation run and  *)
(* then queried through expect and sample_final_state.  The variables are  *)
(* the five fields of the object, the arguments it was constructed with,   *)
(* and a record of the last call (its arguments, the exception it raised   *)
(* or the value it returned, and the library calls it made, in order).     *)
(*                                                                         *)
(* Amplitudes are integers: a state vector is stored in units of a common  *)
(* factor 1/sqrt(sum of the squared entries), so that np.abs(x)**2 is the  *)
(* square of the absolute value of the entry and the probability of entry  *)
(* i is Abs(x[i])^2 out of the total mass of the vector.                   *)
(***************************************************************************)
EXTENDS Integers, Sequences, FiniteSets, TLC

\* ---------------------------------------------------------------- bounds
MaxSize == 2
MaxSamples == 2
MaxSteps == 2
MaxObs == 2

\* ------------------------------------------------------------- vocabulary
None == "None"
MeasBases == {"ground-rydberg", "digital"}
BasisNames == {"ground-rydberg", "digital", "all"}
\* what a caller may pass or store as meas_basis: nothing, a measurement
\* basis, or a string that is not a measurement basis
BasisArgs == {None, "ground-rydberg", "digital", "all"}
Dims == {2, 3, 4}
\* what a caller may pass to expect as obs_list
ObsListTypes == {"list", "ndarray", "tuple", "Qobj"}

\* ---------------------------------------------------------------- helpers
RECURSIVE Pow(_, _)
Pow(b, e) == IF e = 0 THEN 1 ELSE b * Pow(b, e - 1)

RECURSIVE SumSeq(_)
SumSeq(s) == IF s = <<>> THEN 0 ELSE Head(s) + SumSeq(Tail(s))

RECURSIVE SumOver(_, _)
\* sum of the entries of the 0-indexed array p at the flat indices in I
SumOver(p, I) ==
    IF I = {} THEN 0
    ELSE LET i == CHOOSE x \in I : TRUE
         IN p[i + 1] + SumOver(p, I \ {i})

Abs(x) == IF x < 0 THEN -x ELSE x

\* np.abs(state)**2, entry by entry
Probs(state) == [i \in 1..Len(state) |-> Abs(state[i]) * Abs(state[i])]

\* a[::-1]
Reversed(a) == [i \in 1..Len(a) |-> a[Len(a) + 1 - i]]

\* np.binary_repr(num, width): the binary digits of num, most significant
\* first, zero-padded to width
BinaryRepr(num, width) ==
    [j \in 1..width |-> IF (num \div Pow(2, width - j)) % 2 = 1 THEN "1" ELSE "0"]

\* '0' * N
ZeroString(N) == [j \in 1..N |-> "0"]

\* ----------------------------------------------------- sample_final_state
\* the stored default taking precedence over the argument
ResolveBasisStoredFirst(arg, stored) == IF stored # None THEN stored ELSE arg

\* lines 88-94: the argument when one is supplied, the stored default
\* otherwise (None when neither is available)
ResolveBasis(arg, stored) == IF arg = None THEN stored ELSE arg

\* line 96: meas_basis in {'ground-rydberg', 'digital'}
IsMeasBasis(mb) == mb \in {"ground-rydberg", "digital"}

\* the resolved basis written back to self.meas_basis
StoredAfterSampleKeepsArg(arg, stored) == IF arg = None THEN stored ELSE arg

\* lines 88-94 bind the local name meas_basis only: the value of
\* self.meas_basis after a call with argument arg
StoredAfterSample(arg, stored) == stored

\* line 102: self.states[-1]
FinalState(sts) == sts[Len(sts)]

\* the probability vector taken as it is for either basis
Weights2NoReverse(probs, mb) == probs

\* line 108, 111: dim 2, measurement basis equal to the addressing basis
Weights2(probs, mb) == IF mb = "digital" THEN probs ELSE Reversed(probs)

\* the all-one string in place of the all-zero string
MismatchReturnOnes(N, n) == [key \in {[j \in 1..N |-> "1"]} |-> n]

\* line 110: dim 2, measurement basis different from the addressing basis
MismatchReturn(N, n) == [key \in {ZeroString(N)} |-> n]

\* the logical-1 levels of the two bases exchanged
OneStateSwapped(mb) == IF mb = "ground-rydberg" THEN 2 ELSE 0

\* slices one level short
ExOneShort(mb) == IF mb = "ground-rydberg" THEN {1} ELSE {0}

\* lines 114-119: the level that reads as 1, and the levels that read as 0
OneState(mb) == IF mb = "ground-rydberg" THEN 0 ELSE 2

ExOne(mb) == IF mb = "ground-rydberg" THEN {1, 2} ELSE {0, 1}

\* line 121: probs.reshape([3]*N) is row-major: the entry at the level tuple
\* t (t[1] is the first particle) is the flat entry sum of t[j] * 3^(N-j)
RECURSIVE FlatIndex(_, _)
FlatIndex(t, N) ==
    IF Len(t) = 0 THEN 0
    ELSE Head(t) * Pow(3, N - 1) + FlatIndex(Tail(t), N - 1)

\* lines 124-129, 134: the flat indices of the entries probs[tuple(ind)]
\* selects for dec_val
Selection(mb, N, dec_val) ==
    LET bits == BinaryRepr(dec_val, N)
        tuples == {t \in [1..N -> 0..2] :
                      \A j \in 1..N :
                          IF bits[j] = "0" THEN t[j] \in ExOne(mb)
                          ELSE t[j] = OneState(mb)}
    IN {FlatIndex(t, N) : t \in tuples}

\* lines 122-134: one weight per dec_val in range(2**N)
Weights3(probs, mb, N) ==
    [k \in 1..Pow(2, N) |-> SumOver(probs, Selection(mb, N, k - 1))]

RECURSIVE Allocations(_, _)
\* the ways of giving n draws to the categories in S
Allocations(n, S) ==
    IF S = {} THEN (IF n = 0 THEN {<<>>} ELSE {})
    ELSE LET i == CHOOSE x \in S : TRUE
         IN UNION {{(i :> c) @@ f : f \in Allocations(n - c, S \ {i})} : c \in 0..n}

\* line 140: np.random.multinomial(n, pvals), pvals in units of 1/unit.
\* numpy rejects pvals whose entries but the last sum to more than 1; it
\* draws each category but the last with its own probability and gives the
\* last category the draws that remain (the last entry of pvals is not read).
\* The value is the set of arrays a draw can produce.
MultinomialRejects(pvals, unit) == SumSeq(SubSeq(pvals, 1, Len(pvals) - 1)) > unit

Multinomial(n, pvals, unit) ==
    LET d == Len(pvals)
        rest == unit - SumSeq(SubSeq(pvals, 1, d - 1))
        S == {i \in 1..(d - 1) : pvals[i] > 0} \cup (IF rest > 0 THEN {d} ELSE {})
    IN IF S = {} THEN {[i \in 1..d |-> IF i = d THEN n ELSE 0]}
       ELSE {[i \in 1..d |-> IF i \in S THEN f[i] ELSE 0] : f \in Allocations(n, S)}

\* the first outcome left out
NonzeroSkipsFirst(dist) == {i \in 1..(Len(dist) - 1) : dist[i + 1] # 0}

\* line 141: np.nonzero(dist)[0], as 0-based indices
Nonzero(dist) == {i \in 0..(Len(dist) - 1) : dist[i + 1] # 0}

\* line 141: {np.binary_repr(i, N): dist[i] for i in np.nonzero(dist)[0]}
ToDict(dist, N) ==
    LET keys == {BinaryRepr(i, N) : i \in Nonzero(dist)}
    IN [key \in keys |->
            dist[1 + CHOOSE i \in Nonzero(dist) : BinaryRepr(i, N) = key]]

\* what a call leaves behind: the exception raised ("none" when it returned),
\* the value returned, the weight table and the draw when they were made, and
\* the library calls made, in order
Outcome(exc, ret, weights, dist, calls) ==
    [exc |-> exc, ret |-> ret, weights |-> weights, dist |-> dist, calls |-> calls]

Raise(exc, calls) == Outcome(exc, <<>>, <<>>, <<>>, calls)

\* lines 140-141
DrawAndReturn(n, weights, unit, N, calls) ==
    IF MultinomialRejects(weights, unit)
    THEN {Outcome("ValueError", <<>>, weights, <<>>, calls \o <<"multinomial">>)}
    ELSE {Outcome("none", ToDict(dist, N), weights, dist, calls \o <<"multinomial">>) :
             dist \in Multinomial(n, weights, unit)}

\* every dimension from 3 up taken as 3
IsDim3OrMore(d) == d >= 3

\* lines 103, 113: the branch taken for a dimension
IsDim2(d) == d = 2

IsDim3(d) == d = 3

\* lines 88-141: the outcomes of self.sample_final_state(arg, n)
SampleOutcomes(sts, d, sz, bname, stored, arg, n) ==
    IF arg = None /\ stored = None THEN {Raise("ValueError", <<>>)}
    ELSE
    LET mb == ResolveBasis(arg, stored) IN
    IF ~IsMeasBasis(mb) THEN {Raise("ValueError", <<>>)}
    ELSE
    LET N == sz
        probs == Probs(FinalState(sts))
        unit == SumSeq(probs)
    IN IF IsDim2(d)
       THEN IF mb = bname
            THEN DrawAndReturn(n, Weights2(probs, mb), unit, N, <<"abs">>)
            ELSE {Outcome("none", MismatchReturn(N, n), <<>>, <<>>, <<"abs">>)}
       ELSE IF IsDim3(d)
       THEN DrawAndReturn(n, Weights3(probs, mb, N), unit, N, <<"abs", "reshape", "sum">>)
       ELSE {Raise("NotImplementedError", <<"abs">>)}

\* ------------------------------------------------------------------ expect
\* line 57: isinstance(obs_list, (list, np.ndarray))
IsListOrArray(type) == type \in {"list", "ndarray"}

\* line 62: the shape an observable must have
ExpectedShape(d, sz) == <<Pow(d, sz), Pow(d, sz)>>

\* lines 61-66: the number of observables wrapped into a qutip.Qobj before
\* the loop ends: the index of the first observable of another shape, less
\* one, or all of them
RECURSIVE Wrapped(_, _)
Wrapped(shapes, good) ==
    IF shapes = <<>> \/ Head(shapes) # good THEN 0
    ELSE 1 + Wrapped(Tail(shapes), good)

\* line 68: element i is the list of the expectation values of observable i,
\* one per state of the run; <<i, t>> stands for the value qutip.expect
\* computes for observable i and state t
ExpectValues(count, sts) == [i \in 1..count |-> [t \in 1..Len(sts) |-> <<i, t>>]]

\* lines 57-68: the outcome of self.expect(obs_list), obs_list of the given
\* type and holding observables of the given shapes
ExpectOutcome(sts, d, sz, type, shapes) ==
    IF ~IsListOrArray(type) THEN Raise("TypeError", <<>>)
    ELSE
    LET w == Wrapped(shapes, ExpectedShape(d, sz))
        wrapCalls == [i \in 1..w |-> "Qobj"]
    IN IF w < Len(shapes) THEN Raise("ValueError", wrapCalls)
       ELSE Outcome("none", ExpectValues(w, sts), <<>>, <<>>,
                    wrapCalls \o [i \in 1..w |-> "expect"])

\* ------------------------------------------------------------ the inputs
\* the basis state of index i (0-based) among L
Ket(L, i) == [k \in 1..L |-> IF k = i + 1 THEN 1 ELSE 0]

\* an equal superposition of the first entry and entry j, with opposite signs
Pair(L, j) == [k \in 1..L |-> IF k = 1 THEN 1 ELSE IF k = j + 1 THEN -1 ELSE 0]

\* the final states: every basis state, and the superpositions of the first
\* basis state with another one
StateVectors(L) ==
    {Ket(L, i) : i \in 0..(L - 1)} \cup {Pair(L, j) : j \in 1..(L - 1)}

\* the states of a run of 1..MaxSteps time steps: the run starts from the
\* first entry and ends in any state vector
Runs(L) ==
    {[t \in 1..T |-> IF t = T THEN final ELSE Ket(L, 0)] :
        T \in 1..MaxSteps, final \in StateVectors(L)}

\* the shapes of the observables a caller passes
ObsShapes(d, sz) == {ExpectedShape(d, sz), <<Pow(d, sz), 1>>}

ObsLists(d, sz) == UNION {[1..k -> ObsShapes(d, sz)] : k \in 0..MaxObs}

\* --------------------------------------------------------- state machine
VARIABLES states, dim, size, basis_name, meas_basis, created, last

vars == <<states, dim, size, basis_name, meas_basis, created, last>>

fields == <<states, dim, size, basis_name, meas_basis>>

Call(op, arg, n, type, shapes, out) ==
    [op |-> op, arg |-> arg, n |-> n, type |-> type, shapes |-> shapes,
     exc |-> out.exc, ret |-> out.ret, weights |-> out.weights,
     dist |-> out.dist, calls |-> out.calls]

NoCall == Call("new", None, 0, None, <<>>, Raise("none", <<>>))

\* lines 26-46: SimulationResults(run_output, dim, size, basis_name, meas_basis)
Init ==
    /\ size \in 1..MaxSize
    /\ dim \in Dims
    /\ basis_name \in BasisNames
    /\ meas_basis \in BasisArgs
    /\ states \in Runs(Pow(dim, size))
    /\ created = [states |-> states, dim |-> dim, size |-> size,
                  basis_name |-> basis_name, meas_basis |-> meas_basis]
    /\ last = NoCall

\* the caller is between calls: it holds no result
Idle == last.op = "new"

\* lines 70-141: self.sample_final_state(arg, n)
SampleFinalState(arg, n) ==
    /\ Idle
    /\ \E out \in SampleOutcomes(states, dim, size, basis_name, meas_basis, arg, n) :
           last' = Call("sample_final_state", arg, n, None, <<>>, out)
    /\ meas_basis' = StoredAfterSample(arg, meas_basis)
    /\ UNCHANGED <<states, dim, size, basis_name, created>>

\* lines 48-68: self.expect(obs_list), obs_list of the given type holding
\* observables of any of the shapes (a single Qobj holds none)
Expect(type) ==
    /\ Idle
    /\ \E shapes \in ObsLists(dim, size) :
           /\ type = "Qobj" => shapes = <<>>
           /\ last' = Call("expect", None, 0, type, shapes,
                           ExpectOutcome(states, dim, size, type, shapes))
    /\ UNCHANGED <<states, dim, size, basis_name, meas_basis, created>>

\* the caller lets go of the value or the exception of its last call and is
\* ready for the next one; the object holds no reference to either
Release ==
    /\ ~Idle
    /\ last' = NoCall
    /\ UNCHANGED <<states, dim, size, basis_name, meas_basis, created>>

Next ==
    \/ \E arg \in BasisArgs, n \in 0..MaxSamples : SampleFinalState(arg, n)
    \/ \E type \in ObsListTypes : Expect(type)
    \/ Release

Spec == Init /\ [][Next]_vars

\* ------------------------------------------------------------- properties
\* what the properties read off the construction arguments and the last call
Sampled == last.op = "sample_final_state"

Expected == last.op = "expect"

Returned == last.exc = "none"

\* the basis a call is to measure in: the argument if one was supplied, else
\* the default given at construction
ResolvedBasis == IF last.arg # None THEN last.arg ELSE created.meas_basis

BasisRecognized == ResolvedBasis \in MeasBases

\* the probability of each amplitude of the final state given at construction
FinalProbs ==
    LET f == created.states[Len(created.states)]
    IN [i \in 1..Len(f) |-> f[i] * f[i]]

RECURSIVE SumCounts(_, _)
SumCounts(f, S) ==
    IF S = {} THEN 0
    ELSE LET x == CHOOSE y \in S : TRUE IN f[x] + SumCounts(f, S \ {x})

RECURSIVE BigEndian(_, _)
\* the width-digit binary numeral of i, built from its least significant digit
BigEndian(i, width) ==
    IF width = 0 THEN <<>>
    ELSE Append(BigEndian(i \div 2, width - 1), IF i % 2 = 1 THEN "1" ELSE "0")

\* the final state has all its probability on amplitude index i (0-based)
AllOn(i) == \A k \in 1..Len(FinalProbs) : (FinalProbs[k] # 0) <=> (k = i + 1)

\* C1: the counts of every mapping sample_final_state returns sum to N_samples
C1_CountsSumToNSamples ==
    (Sampled /\ Returned) => SumCounts(last.ret, DOMAIN last.ret) = last.n

C1_Witness ==
    /\ Sampled /\ Returned
    /\ dim = 3 /\ size = 2 /\ last.n = 2
    /\ Cardinality(DOMAIN last.ret) = 2

\* C2: dim 2, measurement basis equal to basis_name, all the probability on
\* amplitude i, N_samples >= 1: the mapping returned is {b: N_samples}, b the
\* binary numeral of i ('digital') or of 2^N-1-i ('ground-rydberg')
C2_BasisStateIsDeterministic ==
    \A i \in 0..(Pow(2, size) - 1) :
        (/\ Sampled /\ dim = 2 /\ BasisRecognized
         /\ ResolvedBasis = basis_name
         /\ AllOn(i) /\ last.n >= 1)
        => /\ Returned
           /\ last.ret =
                  [key \in {BigEndian(IF ResolvedBasis = "digital" THEN i
                                      ELSE Pow(2, size) - 1 - i, size)} |-> last.n]

\* size 2, 'ground-rydberg', state [0, 0, 0, 1] gives {'00': N_samples}
C2_Witness ==
    /\ Sampled /\ dim = 2 /\ size = 2 /\ basis_name = "ground-rydberg"
    /\ last.arg = "ground-rydberg" /\ last.n = 2
    /\ FinalProbs = <<0, 0, 0, 1>>
    /\ last.ret = [key \in {<<"0", "0">>} |-> 2]

\* C3: dim 2, a recognized measurement basis different from basis_name: the
\* mapping returned is {'0' * size: N_samples} and no sample is drawn
C3_MismatchReturnsAllZero ==
    (Sampled /\ dim = 2 /\ BasisRecognized /\ ResolvedBasis # basis_name)
    => /\ Returned
       /\ last.ret = [key \in {[j \in 1..size |-> "0"]} |-> last.n]
       /\ \A c \in 1..Len(last.calls) : last.calls[c] # "multinomial"

\* the final state is not the all-zero outcome of either convention
C3_Witness ==
    /\ Sampled /\ dim = 2 /\ size = 2 /\ basis_name = "all"
    /\ last.arg = "digital" /\ last.n = 2
    /\ FinalProbs = <<0, 1, 0, 0>>
    /\ last.ret = [key \in {<<"0", "0">>} |-> 2]

\* the level of particle j (1 is the first) at the flat entry i of the
\* probability tensor of N particles
LevelOf(i, j, N) == (i \div Pow(3, N - j)) % 3

\* the level that reads as 1: rydberg (0) or hyperfine (2)
LogicalOne(mb) == IF mb = "ground-rydberg" THEN 0 ELSE 2

RECURSIVE Pattern(_, _, _, _)
\* the bitstring value the flat entry i reads as: bit j is 1 when particle j
\* is in the logical-1 level; built from the last particle up
Pattern(i, mb, N, j) ==
    IF j = 0 THEN 0
    ELSE (IF LevelOf(i, j, N) = LogicalOne(mb) THEN Pow(2, N - j) ELSE 0)
             + Pattern(i, mb, N, j - 1)

\* every weight is the probability mass of the entries that read as its
\* bitstring value
WeightsAreMarginals ==
    (Sampled /\ dim = 3 /\ BasisRecognized)
    => LET N == size
           p == FinalProbs
           reads == [e \in 1..Pow(3, N) |-> Pattern(e - 1, ResolvedBasis, N, N)]
       IN last.weights =
              [k \in 1..Pow(2, N) |->
                  SumCounts(p, {e \in 1..Pow(3, N) : reads[e] = k - 1})]

RydbergCase ==
    /\ Sampled /\ dim = 3 /\ size = 1 /\ ResolvedBasis = "ground-rydberg"
    /\ FinalProbs[1] # 0 /\ FinalProbs[2] = 0 /\ FinalProbs[3] = 0

\* C4 as stated: dim 3, the weight of bitstring k is the mass of the level
\* tuples that read as k; and size 1 with all the probability on the rydberg
\* level, 'ground-rydberg', returns {'1': N_samples}
C4_AsStated ==
    /\ WeightsAreMarginals
    /\ RydbergCase => (Returned /\ last.ret = [key \in {<<"1">>} |-> last.n])

\* C4 (amended): dim 3, the weight of bitstring k is the mass of the level
\* tuples that read as k; and size 1 with all the probability on the rydberg
\* level, 'ground-rydberg', returns {'1': N_samples} when N_samples >= 1 and
\* the empty mapping when N_samples = 0
C4_WeightsAreMarginals ==
    /\ WeightsAreMarginals
    /\ RydbergCase =>
           /\ Returned
           /\ last.ret = [key \in (IF last.n >= 1 THEN {<<"1">>} ELSE {}) |-> last.n]

\* two entries of the tensor fall in the same bitstring, one weight is 2
C4_Witness ==
    /\ Sampled /\ Returned /\ dim = 3 /\ size = 2
    /\ ResolvedBasis = "digital" /\ basis_name = "ground-rydberg"
    /\ last.weights = <<2, 0, 0, 0>>

\* C5: dim 3: every level tuple is selected for exactly one bitstring (the
\* selections cover the 3^N entries and their sizes add up to 3^N, so no
\* entry is selected twice), and the weights sum to the probability mass of
\* the final state
C5_SelectionsPartition ==
    (Sampled /\ dim = 3 /\ BasisRecognized)
    => LET N == size
           ks == 0..(Pow(2, N) - 1)
       IN /\ UNION {Selection(ResolvedBasis, N, k) : k \in ks} = 0..(Pow(3, N) - 1)
          /\ SumSeq([k \in 1..Pow(2, N) |->
                        Cardinality(Selection(ResolvedBasis, N, k - 1))]) = Pow(3, N)
          /\ Len(last.weights) = Pow(2, N)
          /\ SumSeq(last.weights) = SumSeq(FinalProbs)

C5_Witness ==
    /\ Sampled /\ dim = 3 /\ size = 2 /\ ResolvedBasis = "ground-rydberg"
    /\ last.weights = <<1, 0, 0, 1>>

\* C6: every mapping returned by sample_final_state has keys of '0'/'1' of
\* length size and no entry whose count is zero
C6_KeysAreBitstringsNoZeroCount ==
    (Sampled /\ Returned)
    => \A key \in DOMAIN last.ret :
           /\ Len(key) = size
           /\ \A j \in 1..Len(key) : key[j] \in {"0", "1"}
           /\ last.ret[key] # 0

\* C7: ValueError exactly when no basis is resolvable or the resolved basis
\* is not a measurement basis, and then nothing was computed or drawn
C7_BasisErrorsComeFirst ==
    Sampled
    => /\ (last.exc = "ValueError") <=> ~BasisRecognized
       /\ (last.exc = "ValueError") => last.calls = <<>>

C7_Witness ==
    /\ Sampled /\ last.arg = None /\ created.meas_basis = None
    /\ last.exc = "ValueError" /\ last.calls = <<>>

\* what the documentation of expect calls array-like: a list, an array, a tuple
IsArrayLike(type) == type \in {"list", "ndarray", "tuple"}

\* C8: expect raises TypeError exactly when obs_list is not an array-like
\* sequence, having computed nothing; and ValueError when an observable has
\* another shape than (dim^size, dim^size), no expectation value computed
C8_ExpectValidatesFirst ==
    Expected
    => /\ (last.exc = "TypeError") <=> ~IsArrayLike(last.type)
       /\ (last.exc = "TypeError") => last.calls = <<>>
       /\ (/\ IsArrayLike(last.type)
           /\ \E i \in 1..Len(last.shapes) :
                  last.shapes[i] # <<Pow(dim, size), Pow(dim, size)>>)
          => /\ last.exc = "ValueError"
             /\ \A c \in 1..Len(last.calls) : last.calls[c] # "expect"

\* C9: a dim outside {2, 3} with a recognized basis raises
\* NotImplementedError, draws nothing and returns nothing; with a basis
\* that is not recognized the ValueError is raised instead
C9_UnsupportedDimension ==
    (Sampled /\ dim \notin {2, 3})
    => IF BasisRecognized
       THEN /\ last.exc = "NotImplementedError"
            /\ last.ret = <<>> /\ last.dist = <<>>
            /\ \A c \in 1..Len(last.calls) : last.calls[c] # "multinomial"
       ELSE last.exc = "ValueError"

C9_Witness ==
    /\ Sampled /\ dim = 4 /\ BasisRecognized
    /\ last.exc = "NotImplementedError"

\* C10: the fields of the object are the values given at construction,
\* whatever calls were made
C10_FieldsNeverChange ==
    /\ states = created.states
    /\ dim = created.dim
    /\ size = created.size
    /\ basis_name = created.basis_name
    /\ meas_basis = created.meas_basis

\* a call with an explicit basis other than the stored default has returned
C10_Witness ==
    /\ Sampled /\ Returned
    /\ last.arg = "digital" /\ created.meas_basis = "ground-rydberg"
    /\ meas_basis = "ground-rydberg"

====
